---- MODULE Spec2Model ----
(***************************************************************************)
(* A model of simple-logr: the Logger (logger.go), the field encoders and  *)
(* package defaults (defaults.go), the SynchronizedWriter, the             *)
(* DevelopmentLogSink (text) and the JSONLogSink.                          *)
(*                                                                         *)
(* Go slices are modelled as they are in the language: a slice is a        *)
(* reference to a backing array plus a length, its capacity is the length  *)
(* of the backing array, and append writes in place whenever the capacity  *)
(* suffices.                                                               *)
(***************************************************************************)
EXTENDS Integers, Sequences, FiniteSets, TLC

VARIABLES
    nameArrs,   \* heap of the backing arrays of Logger.names ([]string)
    valArrs,    \* heap of the backing arrays of Logger.values ([]interface{})
    loggers,    \* every Logger value created so far, in creation order
    last,       \* the most recent Info/Error call: its arguments and what it did
    sev,        \* the most recent use of a severity encoder: its inputs and result
    sinkCall,   \* a call of a sink's Log: its Entry, options and result
    threads,    \* per thread: where it is in its Log calls and in Write
    lock,       \* SynchronizedWriter.lock: the thread holding it, 0 if free
    dest,       \* the bytes the underlying writer has received, in order
    failed,     \* the lines whose underlying Write returned an error
    defaults,   \* the package-level defaults (and color.NoColor)
    thresholdArrs,  \* heap of the backing arrays of []SeverityThreshold slices
    colours,    \* heap of the color.Color objects
    sinks       \* the sinks constructed so far, in construction order

loggerVars == <<nameArrs, valArrs, loggers, last>>

\* The variables other than the Logger's, the severity encoder's, the sink call's.
writerVars == <<threads, lock, dest, failed>>
packageVars == <<defaults, thresholdArrs, colours, sinks>>
exceptLogger == <<sev, sinkCall, writerVars, packageVars>>
exceptSeverity == <<nameArrs, valArrs, loggers, last, sinkCall, writerVars, packageVars>>
exceptSink == <<nameArrs, valArrs, loggers, last, sev, writerVars, packageVars>>
exceptWriter == <<nameArrs, valArrs, loggers, last, sev, sinkCall, packageVars>>
exceptPackage == <<nameArrs, valArrs, loggers, last, sev, sinkCall, writerVars>>

vars == <<nameArrs, valArrs, loggers, last, sev, sinkCall, threads, lock, dest, failed,
          defaults, thresholdArrs, colours, sinks>>

-----------------------------------------------------------------------------
(* Values                                                                  *)

\* An interface{} value, tagged with its dynamic type.
Str(s) == [type |-> "string", val |-> s]
Num(s) == [type |-> "int", val |-> s]
Chan == [type |-> "chan", val |-> "chan"]
NilValue == [type |-> "nil", val |-> ""]

\* An error value: nil, or a message with the stack trace it exposes ("" if none).
NilError == [nil |-> TRUE, msg |-> "", trace |-> ""]
Err(m, t) == [nil |-> FALSE, msg |-> m, trace |-> t]

\* errors.New of github.com/pkg/errors records a stack trace.
UsageError == Err("odd number of arguments passed as key-value pairs for logging", "stack")

-----------------------------------------------------------------------------
(* Go slices                                                               *)

NilSlice == [arr |-> 0, len |-> 0]

Cap(heap, s) == IF s.arr = 0 THEN 0 ELSE Len(heap[s.arr])

SliceElems(heap, s) == IF s.arr = 0 THEN <<>> ELSE SubSeq(heap[s.arr], 1, s.len)

\* The capacity append allocates when the old one does not suffice (the
\* runtime's growth for small slices of 16-byte elements: double, or the
\* needed length when that is more).
GrowCap(oldCap, needed) == IF needed > 2 * oldCap THEN needed ELSE 2 * oldCap

\* append(s, xs...): in place when the capacity suffices, else into a new array.
GoAppend(heap, s, xs, zero) ==
    LET n == s.len + Len(xs)
    IN  IF n <= Cap(heap, s)
        THEN [heap |-> IF xs = <<>> THEN heap
                       ELSE [heap EXCEPT ![s.arr] =
                                [i \in 1..Len(@) |->
                                    IF i > s.len /\ i <= n THEN xs[i - s.len] ELSE @[i]]],
              slice |-> [arr |-> s.arr, len |-> n]]
        ELSE LET newCap == GrowCap(Cap(heap, s), n)
                 fresh == [i \in 1..newCap |->
                              IF i <= s.len THEN heap[s.arr][i]
                              ELSE IF i <= n THEN xs[i - s.len]
                              ELSE zero]
             IN  [heap |-> Append(heap, fresh),
                  slice |-> [arr |-> Len(heap) + 1, len |-> n]]

RECURSIVE Flatten(_)
Flatten(seqs) == IF seqs = <<>> THEN <<>> ELSE Head(seqs) \o Flatten(Tail(seqs))

-----------------------------------------------------------------------------
(* Logger                                                                  *)

\* The names and values a Logger holds now.
Names(l) == SliceElems(nameArrs, loggers[l].names)
Values(l) == SliceElems(valArrs, loggers[l].values)

\* New: no names, no values (both slices nil).  pathNames and pathArgs record
\* the arguments of the WithName and WithValues calls along the Logger's
\* derivation path, one entry per call.
NewLogger == [names |-> NilSlice, values |-> NilSlice, pathNames |-> <<>>, pathArgs |-> <<>>]

NoCall ==
    [logger |-> 0, level |-> 0, err |-> NilError, msg |-> "", kvs |-> <<>>, now |-> 0,
     names |-> <<>>, values |-> <<>>,
     sinkErr |-> NilError, dispatched |-> <<>>, handled |-> <<>>, returned |-> FALSE]

LoggerInit ==
    /\ nameArrs = <<>>
    /\ valArrs = <<>>
    /\ loggers = <<NewLogger>>
    /\ last = NoCall

\* WithValues: the receiver is a copy of the Logger; the copy's values are
\* appended to and the copy is returned.
WithValues(l, keysAndValues) ==
    LET r == GoAppend(valArrs, loggers[l].values, keysAndValues, NilValue)
    IN  /\ valArrs' = r.heap
        /\ loggers' = Append(loggers,
                [loggers[l] EXCEPT !.values = r.slice,
                                   !.pathArgs = Append(@, keysAndValues)])
        /\ UNCHANGED <<nameArrs, last>>

\* WithName: as WithValues, for the names.
WithName(l, name) ==
    LET r == GoAppend(nameArrs, loggers[l].names, <<name>>, "")
    IN  /\ nameArrs' = r.heap
        /\ loggers' = Append(loggers,
                [loggers[l] EXCEPT !.names = r.slice,
                                   !.pathNames = Append(@, name)])
        /\ UNCHANGED <<valArrs, last>>

ParityOddCallSiteOnly(accrued, callSite) == Len(callSite) % 2 # 0

\* kvsLen%2 != 0, kvsLen := len(l.values) + len(keysAndValues)
ParityOdd(accrued, callSite) == (Len(accrued) + Len(callSite)) % 2 # 0

DegradedEntryKeepingCall(names, now, level, err, msg, kvs) ==
    [Level |-> level, Names |-> names, Timestamp |-> now, Message |-> msg,
     KVs |-> kvs, Error |-> UsageError]

\* The Entry of the parity-violation path: Names, Timestamp and Error only.
DegradedEntry(names, now, level, err, msg, kvs) ==
    [Level |-> 0, Names |-> names, Timestamp |-> now, Message |-> "",
     KVs |-> <<>>, Error |-> UsageError]

\* The Entry of the normal path: kvs is a fresh array holding the Logger's
\* values followed by the call's.
FullEntry(names, values, now, level, err, msg, kvs) ==
    [Level |-> level, Names |-> names, Timestamp |-> now, Message |-> msg,
     KVs |-> values \o kvs, Error |-> err]

\* The Entry log hands to the Sink.
BuildEntry(names, values, now, level, err, msg, kvs) ==
    IF ParityOdd(values, kvs)
    THEN DegradedEntry(names, now, level, err, msg, kvs)
    ELSE FullEntry(names, values, now, level, err, msg, kvs)

HandlerCallsOnNormalPathOnly(entry, sinkErr) ==
    IF sinkErr.nil \/ entry.Error = UsageError THEN <<>> ELSE <<sinkErr>>

\* if err := Sink.Log(entry); err != nil { ErrorHandler(err) }
HandlerCalls(entry, sinkErr) == IF sinkErr.nil THEN <<>> ELSE <<sinkErr>>

\* log: one Entry to the Sink, the Sink's error (if any) to the ErrorHandler,
\* then return.  sinkErr is what Sink.Log returns for the Entry.
log(l, level, err, msg, kvs, now, sinkErr) ==
    LET entry == BuildEntry(Names(l), Values(l), now, level, err, msg, kvs)
    IN  /\ last' = [logger |-> l, level |-> level, err |-> err, msg |-> msg,
                    kvs |-> kvs, now |-> now,
                    names |-> Names(l), values |-> Values(l),
                    sinkErr |-> sinkErr,
                    dispatched |-> <<entry>>,
                    handled |-> HandlerCalls(entry, sinkErr),
                    returned |-> TRUE]
        /\ UNCHANGED <<nameArrs, valArrs, loggers>>

Info(l, level, msg, kvs, now, sinkErr) == log(l, level, NilError, msg, kvs, now, sinkErr)

Error(l, err, msg, kvs, now, sinkErr) == log(l, 0, err, msg, kvs, now, sinkErr)

-----------------------------------------------------------------------------
(* Severity encoder (defaults.go)                                          *)

DefaultTraceVerbosity == 2
DefaultDebugVerbosity == 1
DefaultSeverity == "INFO"
DefaultErrorSeverity == "ERROR"

\* The initial value of DefaultSeverityThresholds.
InitialSeverityThresholds ==
    <<[Level |-> DefaultTraceVerbosity, Severity |-> "TRACE"],
      [Level |-> DefaultDebugVerbosity, Severity |-> "DEBUG"]>>

\* if level >= threshold.Level
ThresholdMet(level, threshold) == level >= threshold.Level

\* for _, threshold := range thresholds { if met { return threshold.Severity } }
\* return defaultSeverity
RECURSIVE ScanThresholds(_, _, _)
ScanThresholds(thresholds, level, defaultSeverity) ==
    IF thresholds = <<>> THEN defaultSeverity
    ELSE IF ThresholdMet(level, Head(thresholds)) THEN Head(thresholds).Severity
    ELSE ScanThresholds(Tail(thresholds), level, defaultSeverity)

\* The highest threshold met wins, whatever its place in the list.
SeverityByMaxMatch(defaultSeverity, errSeverity, thresholds, level, err) ==
    LET met == {i \in DOMAIN thresholds : ThresholdMet(level, thresholds[i])}
        best == CHOOSE i \in met : \A j \in met :
                    \/ thresholds[j].Level < thresholds[i].Level
                    \/ (thresholds[j].Level = thresholds[i].Level /\ i <= j)
    IN  IF ~err.nil THEN errSeverity
        ELSE IF met = {} THEN defaultSeverity
        ELSE thresholds[best].Severity

\* The function DefaultSeverityEncoder(defaultSeverity, errSeverity, thresholds)
\* returns, applied to (level, err).
SeverityEncoder(defaultSeverity, errSeverity, thresholds, level, err) ==
    IF ~err.nil THEN errSeverity
    ELSE ScanThresholds(thresholds, level, defaultSeverity)

-----------------------------------------------------------------------------
(* Field encoders (defaults.go)                                            *)

DefaultMessageKey == "msg"
DefaultNameKey == "name"
DefaultTimestampKey == "ts"
DefaultTimestampFormat == "RFC3339Nano"
DefaultNameSeparator == "."
DefaultSeverityKey == "severity"
DefaultErrorKey == "error"
DefaultStackTraceKey == "stacktrace"
DefaultEntrySuffix == "\n"
DefaultSpaceSeparator == " "

\* DefaultTimestampEncoder(format)(t): t.Format(format), for the instants of the
\* model.
TimestampEncoder(format, t) ==
    IF format = "RFC3339Nano"
    THEN (IF t = 1 THEN "1970-01-01T00:00:01Z" ELSE "1970-01-01T00:00:02Z")
    ELSE (IF t = 1 THEN "00:00:01" ELSE "00:00:02")

\* DefaultNameEncoder(separator)(names): strings.Join(names, separator)
RECURSIVE NameEncoder(_, _)
NameEncoder(separator, names) ==
    IF names = <<>> THEN ""
    ELSE IF Len(names) = 1 THEN names[1]
    ELSE names[1] \o separator \o NameEncoder(separator, Tail(names))

\* DefaultErrorEncoder(err): the message, and the stack trace if err exposes one.
ErrorEncoder(err) == [Message |-> err.msg, StackTrace |-> err.trace]

\* json.Marshal(v): whether it succeeds, and the JSON value it gives.
Marshals(v) == v.type \in {"string", "int", "nil"}

MarshalValue(v) ==
    IF v.type = "string" THEN [json |-> "string", s |-> v.val]
    ELSE IF v.type = "int" THEN [json |-> "number", s |-> v.val]
    ELSE [json |-> "null", s |-> "null"]

\* The bytes of a JSON value.
JSONText(j) == IF j.json = "string" THEN "\"" \o j.s \o "\"" ELSE j.s

MarshalError == Err("json: unsupported type", "")
KeyError == Err("logging keys must be strings", "stack")

-----------------------------------------------------------------------------
(* DevelopmentLogSink: the Text Sink                                       *)

\* A color.Color: its attribute, and noColor ("nil" when neither EnableColor
\* nor DisableColor was called, and the package's NoColor decides).
Colour(attr) == [attr |-> attr, noColor |-> "nil"]

\* InitialNoColor: color.NoColor, the outcome of terminal detection.
ColourOn(c, noColorDetected) ==
    IF c.noColor = "nil" THEN ~noColorDetected ELSE c.noColor = "false"

\* c.Fprint / c.Fprintf: the text, between the colour's escape sequences when
\* the colour is on.
Paint(c, text, noColorDetected) ==
    IF ColourOn(c, noColorDetected)
    THEN "\\e[" \o c.attr \o "m" \o text \o "\\e[0m"
    ELSE text

\* d.options.SeverityColours[severity], the primary colour if there is none
SeverityColour(o, severity) ==
    IF severity \in DOMAIN o.SeverityColours
    THEN o.SeverityColours[severity]
    ELSE o.PrimaryColour

\* The loop over e.KVs: each key and value written to the buffer in turn, until
\* a key that is not a string or a value that does not marshal ends the call.
RECURSIVE TextKVs(_, _, _)
TextKVs(o, kvs, nc) ==
    IF kvs = <<>> THEN [err |-> NilError, fields |-> <<>>]
    ELSE LET k == kvs[1]
             v == kvs[2]
         IN  IF k.type # "string" THEN [err |-> KeyError, fields |-> <<>>]
             ELSE IF ~Marshals(v) THEN [err |-> MarshalError, fields |-> <<>>]
             ELSE LET rest == TextKVs(o, SubSeq(kvs, 3, Len(kvs)), nc)
                  IN  [err |-> rest.err,
                       fields |->
                          <<[field |-> "key", key |-> k.val,
                             text |-> Paint(o.SecondaryColour,
                                            o.SpaceSeparator \o k.val \o "=", nc)],
                            [field |-> "value", key |-> k.val,
                             text |-> Paint(o.PrimaryColour,
                                            JSONText(MarshalValue(v)), nc)]>>
                          \o rest.fields]

\* What the Log call writes to its buffer before the kvs.
TextHead(o, e, nc) ==
    LET severity == SeverityEncoder(o.DefaultSeverity, o.ErrorSeverity,
                                    o.Thresholds, e.Level, e.Error)
        severityColour == SeverityColour(o, severity)
    IN  <<[field |-> "timestamp", key |-> "",
           text |-> Paint(o.SecondaryColour,
                          TimestampEncoder(o.TimestampFormat, e.Timestamp), nc)],
          [field |-> "severity", key |-> "",
           text |-> Paint(severityColour, o.SpaceSeparator \o severity, nc)]>>
        \o (IF Len(e.Names) > 0
            THEN <<[field |-> "name", key |-> "",
                    text |-> Paint(o.PrimaryColour,
                                   o.SpaceSeparator \o NameEncoder(o.NameSeparator, e.Names),
                                   nc)]>>
            ELSE <<>>)
        \o <<[field |-> "message", key |-> "",
              text |-> Paint(o.PrimaryColour, o.SpaceSeparator \o e.Message, nc)]>>
        \o (IF ~e.Error.nil
            THEN <<[field |-> "error", key |-> o.ErrorKey,
                    text |-> Paint(severityColour,
                                   o.SpaceSeparator \o o.ErrorKey \o "=\""
                                        \o ErrorEncoder(e.Error).Message \o "\"", nc)]>>
            ELSE <<>>)

\* The stack trace written like the fields before it, after the separator.
TextTailSeparated(o, e, nc) ==
    IF ~e.Error.nil /\ ErrorEncoder(e.Error).StackTrace # ""
    THEN <<[field |-> "stacktrace", key |-> "",
            text |-> Paint(o.PrimaryColour,
                           o.SpaceSeparator \o ErrorEncoder(e.Error).StackTrace, nc)]>>
    ELSE <<>>

\* What the Log call writes to its buffer after the kvs: the stack trace, with
\* the format "%s" and so without the separator.
TextTail(o, e, nc) ==
    IF ~e.Error.nil /\ ErrorEncoder(e.Error).StackTrace # ""
    THEN <<[field |-> "stacktrace", key |-> "",
            text |-> Paint(o.PrimaryColour, ErrorEncoder(e.Error).StackTrace, nc)]>>
    ELSE <<>>

RECURSIVE ConcatText(_)
ConcatText(fields) ==
    IF fields = <<>> THEN "" ELSE Head(fields).text \o ConcatText(Tail(fields))

\* A Log that writes each field to Output as it goes.
TextLogUnbuffered(o, e, nc, writeErr) ==
    LET kvs == TextKVs(o, e.KVs, nc)
        fields == TextHead(o, e, nc) \o kvs.fields
                    \o (IF kvs.err.nil THEN TextTail(o, e, nc) ELSE <<>>)
    IN  [err |-> IF kvs.err.nil THEN writeErr ELSE kvs.err,
         fields |-> fields,
         writes |-> [i \in 1..(Len(fields) + 1) |->
                        IF i <= Len(fields) THEN fields[i].text ELSE o.EntrySuffix]]

\* DevelopmentLogSink.Log with options o on Entry e.  nc is color.NoColor and
\* writeErr what Output.Write returns.  The result: the error returned, the
\* fields put in the buffer, and the byte strings handed to Output.Write.
TextLog(o, e, nc, writeErr) ==
    LET kvs == TextKVs(o, e.KVs, nc)
        fields == TextHead(o, e, nc) \o kvs.fields \o TextTail(o, e, nc)
    IN  IF ~kvs.err.nil
        THEN [err |-> kvs.err, fields |-> <<>>, writes |-> <<>>]
        ELSE [err |-> writeErr, fields |-> fields,
              writes |-> <<ConcatText(fields) \o o.EntrySuffix>>]

\* The options AssertDefaults gives when none is set and no default was changed.
DefaultTextOptions ==
    [SeverityColours |-> [x \in {"ERROR", "INFO", "DEBUG", "TRACE"} |->
            IF x = "ERROR" THEN Colour("91")
            ELSE IF x = "INFO" THEN Colour("97")
            ELSE IF x = "DEBUG" THEN Colour("94")
            ELSE Colour("35")],
     PrimaryColour |-> Colour("97"),
     SecondaryColour |-> Colour("37"),
     DefaultSeverity |-> DefaultSeverity,
     ErrorSeverity |-> DefaultErrorSeverity,
     Thresholds |-> InitialSeverityThresholds,
     NameSeparator |-> DefaultNameSeparator,
     TimestampFormat |-> DefaultTimestampFormat,
     ErrorKey |-> DefaultErrorKey,
     EntrySuffix |-> DefaultEntrySuffix,
     SpaceSeparator |-> DefaultSpaceSeparator]

-----------------------------------------------------------------------------
(* JSONLogSink: the JSON Sink                                              *)

\* The keys of the model in the order encoding/json writes the keys of a map
\* (sorted by their bytes).
KeyOrder == <<"a", "error", "j", "k", "level", "msg", "name", "severity", "stacktrace", "ts">>

EmptyObject == [k \in {} |-> NilValue]

SetMemberKeepingFirst(obj, k, v) == obj @@ (k :> v)

\* obj[k] = v
SetMember(obj, k, v) == (k :> v) @@ obj

NameMemberAlways(o, e, obj) ==
    IF o.NameKey # ""
    THEN SetMember(obj, o.NameKey, Str(NameEncoder(o.NameSeparator, e.Names)))
    ELSE obj

\* if len(e.Names) > 0 && j.options.NameKey != "" { obj[NameKey] = NameEncoder(e.Names) }
NameMember(o, e, obj) ==
    IF Len(e.Names) > 0 /\ o.NameKey # ""
    THEN SetMember(obj, o.NameKey, Str(NameEncoder(o.NameSeparator, e.Names)))
    ELSE obj

\* The object after the fixed fields are set: each under its key, unless the
\* key is empty or the Entry lacks the field.
JSONFixedFields(o, e) ==
    LET o1 == IF o.TimestampKey # ""
              THEN SetMember(EmptyObject, o.TimestampKey,
                             Str(TimestampEncoder(o.TimestampFormat, e.Timestamp)))
              ELSE EmptyObject
        o2 == IF o.SeverityKey # ""
              THEN SetMember(o1, o.SeverityKey,
                             Str(SeverityEncoder(o.DefaultSeverity, o.ErrorSeverity,
                                                 o.Thresholds, e.Level, e.Error)))
              ELSE o1
        o3 == NameMember(o, e, o2)
        o4 == IF e.Message # "" /\ o.MessageKey # ""
              THEN SetMember(o3, o.MessageKey, Str(e.Message))
              ELSE o3
        enc == ErrorEncoder(e.Error)
        o5 == IF ~e.Error.nil /\ o.ErrorKey # "" /\ enc.Message # ""
              THEN SetMember(o4, o.ErrorKey, Str(enc.Message))
              ELSE o4
    IN  IF ~e.Error.nil /\ o.StackTraceKey # "" /\ enc.StackTrace # ""
        THEN SetMember(o5, o.StackTraceKey, Str(enc.StackTrace))
        ELSE o5

\* The loop over e.KVs: obj[kStr] = v for each pair, until a key is no string.
RECURSIVE JSONKVs(_, _)
JSONKVs(obj, kvs) ==
    IF kvs = <<>> THEN [err |-> NilError, obj |-> obj]
    ELSE IF kvs[1].type # "string" THEN [err |-> KeyError, obj |-> obj]
    ELSE JSONKVs(SetMember(obj, kvs[1].val, kvs[2]), SubSeq(kvs, 3, Len(kvs)))

\* errors.Wrap(err, "failed to encode log entry as JSON")
WrapEncodeError(err) == Err("failed to encode log entry as JSON: " \o err.msg, "stack")

\* The members of the encoded object, in the order they are written.
Members(obj) ==
    LET keys == SelectSeq(KeyOrder, LAMBDA k : k \in DOMAIN obj)
    IN  [i \in 1..Len(keys) |->
            [field |-> "member", key |-> keys[i], value |-> MarshalValue(obj[keys[i]]),
             text |-> (IF i > 1 THEN "," ELSE "") \o "\"" \o keys[i] \o "\":"
                        \o JSONText(MarshalValue(obj[keys[i]]))]]

\* JSONLogSink.Log with options o on Entry e; writeErr is what Output.Write
\* returns.  json.Encoder.Encode marshals the whole object, then writes it and
\* a newline with one Write.
JSONLog(o, e, writeErr) ==
    LET filled == JSONKVs(JSONFixedFields(o, e), e.KVs)
        obj == filled.obj
    IN  IF ~filled.err.nil
        THEN [err |-> filled.err, fields |-> <<>>, writes |-> <<>>]
        ELSE IF \E k \in DOMAIN obj : ~Marshals(obj[k])
        THEN [err |-> WrapEncodeError(MarshalError), fields |-> <<>>, writes |-> <<>>]
        ELSE [err |-> IF writeErr.nil THEN NilError ELSE WrapEncodeError(writeErr),
              fields |-> Members(obj),
              writes |-> <<"{" \o ConcatText(Members(obj)) \o "}\n">>]

\* The options AssertDefaults gives when none is set and no default was changed.
DefaultJSONOptions ==
    [SeverityKey |-> DefaultSeverityKey,
     DefaultSeverity |-> DefaultSeverity,
     ErrorSeverity |-> DefaultErrorSeverity,
     Thresholds |-> InitialSeverityThresholds,
     NameKey |-> DefaultNameKey,
     NameSeparator |-> DefaultNameSeparator,
     MessageKey |-> DefaultMessageKey,
     TimestampKey |-> DefaultTimestampKey,
     TimestampFormat |-> DefaultTimestampFormat,
     ErrorKey |-> DefaultErrorKey,
     StackTraceKey |-> DefaultStackTraceKey]

\* json.Unmarshal of a member's value into interface{}.
Unmarshal(j) ==
    IF j.json = "string" THEN Str(j.s)
    ELSE IF j.json = "number" THEN [type |-> "float64", val |-> j.s]
    ELSE NilValue

\* The mapping a JSON parser gives for the members written.
ParseObject(members) ==
    [k \in {members[i].key : i \in DOMAIN members} |->
        Unmarshal(members[CHOOSE i \in DOMAIN members :
                            /\ members[i].key = k
                            /\ \A j \in DOMAIN members :
                                    members[j].key = k => j <= i].value)]

-----------------------------------------------------------------------------
(* Inputs and bounds                                                       *)

\* Loggers created in Spec (the one New builds included).
MaxLoggers == 3

\* Loggers created in SpecFamily (the one New builds included).
MaxFamily == 5

NameArgs == {"a", "b"}
KVArgs == {<<Str("k")>>, <<Str("k"), Str("v")>>, <<Str("x")>>}

Levels == {0, 1}
Errors == {NilError, Err("boom", "")}
Messages == {"m"}
CallKVs == {<<>>, <<Str("j")>>, <<Str("j"), Str("w")>>}
Times == {1, 2}
SinkErrors == {NilError, Err("write failed", "")}

-----------------------------------------------------------------------------------------------------------------------------------------------------
(* Spec: a Logger, its derivations and every shape of logging call.        *)

NoSeverity ==
    [kind |-> "none", defaultSeverity |-> "", errSeverity |-> "", thresholds |-> <<>>,
     level |-> 0, err |-> NilError, out |-> ""]

NoSinkCall == [state |-> "idle"]

NoWriter ==
    /\ threads = <<>>
    /\ lock = 0
    /\ dest = <<>>
    /\ failed = {}

\* The package as initialised, with no sink constructed.
NoPackage ==
    /\ defaults = <<>>
    /\ thresholdArrs = <<>>
    /\ colours = <<>>
    /\ sinks = <<>>

Init ==
    /\ LoggerInit
    /\ sev = NoSeverity
    /\ sinkCall = NoSinkCall
    /\ NoWriter
    /\ NoPackage

Next ==
    \/ \E l \in DOMAIN loggers, kvs \in KVArgs :
            Len(loggers) < MaxLoggers /\ WithValues(l, kvs) /\ UNCHANGED exceptLogger
    \/ \E l \in DOMAIN loggers, name \in NameArgs :
            Len(loggers) < MaxLoggers /\ WithName(l, name) /\ UNCHANGED exceptLogger
    \/ \E l \in DOMAIN loggers, level \in Levels, msg \in Messages, kvs \in CallKVs,
          now \in Times, sinkErr \in SinkErrors :
            Info(l, level, msg, kvs, now, sinkErr) /\ UNCHANGED exceptLogger
    \/ \E l \in DOMAIN loggers, err \in Errors, msg \in Messages, kvs \in CallKVs,
          now \in Times, sinkErr \in SinkErrors :
            Error(l, err, msg, kvs, now, sinkErr) /\ UNCHANGED exceptLogger

Spec == Init /\ [][Next]_vars

-----------------------------------------------------------------------------
(* SpecFamily: larger families of derived Loggers, one shape of call.      *)

NextFamily ==
    \/ \E l \in DOMAIN loggers, kvs \in KVArgs :
            Len(loggers) < MaxFamily /\ WithValues(l, kvs) /\ UNCHANGED exceptLogger
    \/ \E l \in DOMAIN loggers, name \in NameArgs :
            Len(loggers) < MaxFamily /\ WithName(l, name) /\ UNCHANGED exceptLogger
    \/ \E l \in DOMAIN loggers :
            Info(l, 0, "m", <<>>, 1, NilError) /\ UNCHANGED exceptLogger
    \/ \E l \in DOMAIN loggers :
            Error(l, Err("boom", ""), "m", <<>>, 1, NilError) /\ UNCHANGED exceptLogger

SpecFamily == Init /\ [][NextFamily]_vars

-----------------------------------------------------------------------------
(* SpecSeverity: severity encoders of every small configuration applied to *)
(* levels and errors, and the default encoder applied to the Entries that  *)
(* Info and Error build.                                                   *)

\* Thresholds in a configured list.
MaxThresholds == 2

ThresholdLevels == 0..2
SeverityNames == {"TRACE", "DEBUG"}
EncoderLevels == (0 - 1)..3

ThresholdLists ==
    UNION {[1..n -> [Level : ThresholdLevels, Severity : SeverityNames]] :
                n \in 0..MaxThresholds}

\* A severity encoder built from a configuration and applied to (level, err).
Encode(defaultSeverity, errSeverity, thresholds, level, err) ==
    /\ sev' = [kind |-> "encode", defaultSeverity |-> defaultSeverity,
               errSeverity |-> errSeverity, thresholds |-> thresholds,
               level |-> level, err |-> err,
               out |-> SeverityEncoder(defaultSeverity, errSeverity, thresholds,
                                       level, err)]
    /\ UNCHANGED exceptSeverity

\* A sink with the default encoder (AssertDefaults, before any default is
\* changed) computing the severity of the Entry that Info or Error builds:
\* kind is "Info" or "Error", values the kvs the Logger holds.
EncodeEntry(kind, values, level, err, kvs) ==
    LET e == BuildEntry(<<>>, values, 1, level, err, "m", kvs)
    IN  /\ sev' = [kind |-> kind, defaultSeverity |-> DefaultSeverity,
                   errSeverity |-> DefaultErrorSeverity,
                   thresholds |-> InitialSeverityThresholds,
                   level |-> e.Level, err |-> e.Error,
                   out |-> SeverityEncoder(DefaultSeverity, DefaultErrorSeverity,
                                           InitialSeverityThresholds, e.Level, e.Error)]
        /\ UNCHANGED exceptSeverity

NextSeverity ==
    \/ \E th \in ThresholdLists, level \in EncoderLevels, err \in Errors :
            Encode("INFO", "ERROR", th, level, err)
    \/ \E values \in {<<>>} \cup KVArgs, level \in EncoderLevels, kvs \in CallKVs :
            EncodeEntry("Info", values, level, NilError, kvs)
    \/ \E values \in {<<>>} \cup KVArgs, err \in Errors, kvs \in CallKVs :
            EncodeEntry("Error", values, 0, err, kvs)

SpecSeverity == Init /\ [][NextSeverity]_vars

-----------------------------------------------------------------------------
(* SpecSink: one Log call of the Text Sink or the JSON Sink, for every     *)
(* small Entry a Logger can build.                                         *)

\* Key-value pairs in an Entry.
MaxPairs == 2

Pairs ==
    {<<Str("k"), Str("v")>>, <<Str("k"), Num("7")>>, <<Str("a"), Str("w")>>,
     <<Num("7"), Str("v")>>, <<Str("k"), Chan>>, <<Str("msg"), Str("hi")>>}

PairLists == UNION {[1..n -> Pairs] : n \in 0..MaxPairs}

Entries ==
    {[Level |-> level, Names |-> names, Timestamp |-> 1, Message |-> msg,
      KVs |-> Flatten(pairs), Error |-> err] :
        level \in {0, 2}, names \in {<<>>, <<"a", "b">>}, msg \in {"", "m"},
        pairs \in PairLists, err \in {NilError, Err("boom", ""), Err("boom", "stack")}}
    \cup {DegradedEntry(<<"a">>, 1, 0, NilError, "m", <<>>)}

JSONOptionSets ==
    {DefaultJSONOptions,
     [DefaultJSONOptions EXCEPT !.NameKey = "", !.StackTraceKey = ""]}

WriteErrors == {NilError, Err("short write", "")}

SinkInit ==
    sinkCall \in
        {[state |-> "pending", sink |-> "text", e |-> e, o |-> DefaultTextOptions,
          nc |-> nc, writeErr |-> w,
          result |-> [err |-> NilError, fields |-> <<>>, writes |-> <<>>]] :
            e \in Entries, nc \in BOOLEAN, w \in WriteErrors}
        \cup
        {[state |-> "pending", sink |-> "json", e |-> e, o |-> o,
          nc |-> TRUE, writeErr |-> w,
          result |-> [err |-> NilError, fields |-> <<>>, writes |-> <<>>]] :
            e \in Entries, o \in JSONOptionSets, w \in WriteErrors}

InitSink ==
    /\ LoggerInit
    /\ sev = NoSeverity
    /\ SinkInit
    /\ NoWriter
    /\ NoPackage

TextSinkLog ==
    /\ sinkCall.state = "pending"
    /\ sinkCall.sink = "text"
    /\ sinkCall' = [sinkCall EXCEPT
            !.state = "done",
            !.result = TextLog(sinkCall.o, sinkCall.e, sinkCall.nc, sinkCall.writeErr)]
    /\ UNCHANGED exceptSink

JSONSinkLog ==
    /\ sinkCall.state = "pending"
    /\ sinkCall.sink = "json"
    /\ sinkCall' = [sinkCall EXCEPT
            !.state = "done",
            !.result = JSONLog(sinkCall.o, sinkCall.e, sinkCall.writeErr)]
    /\ UNCHANGED exceptSink

NextSink ==
    \/ TextSinkLog
    \/ JSONSinkLog

SpecSink == InitSink /\ [][NextSink]_vars

-----------------------------------------------------------------------------
(* SpecWriter: threads logging through sinks whose Output is one           *)
(* SynchronizedWriter.  The underlying writer takes a line in two parts,   *)
(* so that two threads inside it at once would show in dest.               *)

\* The threads, each holding a Logger over the shared writer.
Threads == {1, 2}

\* Log calls of each thread.
MCalls == 2

\* Writes of the underlying writer that may fail.
MaxFailures == 1

\* The encoded line of thread t's i-th call, as the underlying writer takes it.
Line(t, i) ==
    <<[thread |-> t, call |-> i, part |-> "head"],
      [thread |-> t, call |-> i, part |-> "tail"]>>

\* The byte strings a sink's Log hands to Output.Write: the whole line, once
\* (fmt.Fprintf of buffer and suffix; json.Encoder.Encode).
SinkWrites(t, i) == <<Line(t, i)>>

InitWriter ==
    /\ LoggerInit
    /\ sev = NoSeverity
    /\ sinkCall = NoSinkCall
    /\ threads = [t \in Threads |->
                    [pc |-> "idle", calls |-> 0, payloads |-> <<>>, pos |-> 0,
                     writeCalls |-> 0, err |-> FALSE]]
    /\ lock = 0
    /\ dest = <<>>
    /\ failed = {}
    /\ NoPackage

\* A thread's Logger calls the sink's Log, which encodes the line and calls
\* Output.Write.
StartLog(t) ==
    /\ threads[t].pc = "idle"
    /\ threads[t].calls < MCalls
    /\ threads' = [threads EXCEPT ![t].pc = "lock",
                                  ![t].payloads = SinkWrites(t, threads[t].calls + 1),
                                  ![t].writeCalls = 0,
                                  ![t].err = FALSE]
    /\ UNCHANGED <<lock, dest, failed>>

LockNotChecked(t) == TRUE

\* sync.Mutex.Lock can return
LockFree(t) == lock = 0

\* s.lock.Lock()
Lock(t) ==
    /\ threads[t].pc = "lock"
    /\ LockFree(t)
    /\ lock' = t
    /\ threads' = [threads EXCEPT ![t].pc = "write", ![t].pos = 0,
                                  ![t].writeCalls = @ + 1]
    /\ UNCHANGED <<dest, failed>>

\* s.Underlying.Write(p), the next part of p reaching the destination
WritePart(t) ==
    /\ threads[t].pc = "write"
    /\ threads[t].pos < Len(Head(threads[t].payloads))
    /\ dest' = Append(dest, Head(threads[t].payloads)[threads[t].pos + 1])
    /\ threads' = [threads EXCEPT ![t].pos = @ + 1]
    /\ UNCHANGED <<lock, failed>>

\* s.Underlying.Write(p) returning an error, with the rest of p not written
WriteFails(t) ==
    /\ threads[t].pc = "write"
    /\ threads[t].pos < Len(Head(threads[t].payloads))
    /\ Cardinality(failed) < MaxFailures
    /\ failed' = failed \cup {[thread |-> t, call |-> threads[t].calls + 1]}
    /\ threads' = [threads EXCEPT ![t].pc = "unlock", ![t].err = TRUE]
    /\ UNCHANGED <<lock, dest>>

\* s.Underlying.Write(p) returning with all of p written
WriteReturns(t) ==
    /\ threads[t].pc = "write"
    /\ threads[t].pos = Len(Head(threads[t].payloads))
    /\ threads' = [threads EXCEPT ![t].pc = "unlock"]
    /\ UNCHANGED <<lock, dest, failed>>

\* defer s.lock.Unlock(), then Write returns to the sink: the sink returns the
\* error, or goes on to its next Write, or is done.
Unlock(t) ==
    /\ threads[t].pc = "unlock"
    /\ lock' = 0
    /\ threads' = [threads EXCEPT
            ![t].pc = IF threads[t].err \/ Len(threads[t].payloads) = 1
                      THEN "idle" ELSE "lock",
            ![t].payloads = Tail(@),
            ![t].calls = IF threads[t].err \/ Len(threads[t].payloads) = 1
                         THEN @ + 1 ELSE @]
    /\ UNCHANGED <<dest, failed>>

ThreadStep(t) ==
    \/ StartLog(t) /\ UNCHANGED exceptWriter
    \/ Lock(t) /\ UNCHANGED exceptWriter
    \/ WritePart(t) /\ UNCHANGED exceptWriter
    \/ WriteFails(t) /\ UNCHANGED exceptWriter
    \/ WriteReturns(t) /\ UNCHANGED exceptWriter
    \/ Unlock(t) /\ UNCHANGED exceptWriter

NextWriter == \E t \in Threads : ThreadStep(t)

\* Every thread that can take a step does: goroutines are scheduled, and a
\* Write completes or fails (it does not block for ever).
SpecWriter == InitWriter /\ [][NextWriter]_vars /\ \A t \in Threads : WF_vars(ThreadStep(t))

-----------------------------------------------------------------------------
(* Package-level defaults, AssertDefaults and the sink constructors        *)

\* The package as it is initialised: the defaults of defaults.go, with
\* DefaultSeverityThresholds a slice over the first threshold array and the
\* default colours the first six colour objects.  noColor is color.NoColor.
PackageInit(noColor) ==
    /\ defaults =
        [MessageKey |-> DefaultMessageKey, NameKey |-> DefaultNameKey,
         TimestampKey |-> DefaultTimestampKey, TimestampFormat |-> DefaultTimestampFormat,
         NameSeparator |-> DefaultNameSeparator, SeverityKey |-> DefaultSeverityKey,
         ErrorKey |-> DefaultErrorKey, StackTraceKey |-> DefaultStackTraceKey,
         Severity |-> DefaultSeverity, ErrorSeverity |-> DefaultErrorSeverity,
         EntrySuffix |-> DefaultEntrySuffix, SpaceSeparator |-> DefaultSpaceSeparator,
         SeverityThresholds |-> [arr |-> 1, len |-> 2],
         PrimaryColour |-> 1, SecondaryColour |-> 2,
         SeverityColours |-> [x \in {"ERROR", "INFO", "DEBUG", "TRACE"} |->
                IF x = "ERROR" THEN 3 ELSE IF x = "INFO" THEN 4
                ELSE IF x = "DEBUG" THEN 5 ELSE 6],
         NoColor |-> noColor]
    /\ thresholdArrs = <<InitialSeverityThresholds>>
    /\ colours = <<Colour("97"), Colour("37"), Colour("91"), Colour("97"),
                   Colour("94"), Colour("35")>>
    /\ sinks = <<>>

\* DefaultSeverityEncoder(..., DefaultSeverityThresholds): the closure keeps the
\* slice it is given, that is the reference to its backing array and its length.
CapturedThresholds(slice) == [arr |-> slice.arr, len |-> slice.len]

\* The thresholds an encoder ranges over when it is called.
ThresholdsOf(captured) == SliceElems(thresholdArrs, captured)

\* JSONLogSinkOptions{}.AssertDefaults() and NewJSONLogSink
NewJSONLogSink ==
    /\ sinks' = Append(sinks,
            [kind |-> "json", mode |-> "auto",
             o |-> [SeverityKey |-> defaults.SeverityKey,
                    DefaultSeverity |-> defaults.Severity,
                    ErrorSeverity |-> defaults.ErrorSeverity,
                    Thresholds |-> CapturedThresholds(defaults.SeverityThresholds),
                    NameKey |-> defaults.NameKey,
                    NameSeparator |-> defaults.NameSeparator,
                    MessageKey |-> defaults.MessageKey,
                    TimestampKey |-> defaults.TimestampKey,
                    TimestampFormat |-> defaults.TimestampFormat,
                    ErrorKey |-> defaults.ErrorKey,
                    StackTraceKey |-> defaults.StackTraceKey]])
    /\ UNCHANGED <<defaults, thresholdArrs, colours>>

\* c.EnableColor() / c.DisableColor() for every colour of the sink
ApplyMode(mode, c) ==
    IF mode = "on" THEN [c EXCEPT !.noColor = "false"]
    ELSE IF mode = "off" THEN [c EXCEPT !.noColor = "true"]
    ELSE c

\* DevelopmentLogSinkOptions{ColouredOutput: mode}.AssertDefaults() and
\* NewDevelopmentLogSink: every default colour is copied into a new object
\* (colourCopy := *colour), and the mode is applied to the copies.
NewDevelopmentLogSink(mode) ==
    LET n == Len(colours)
        severities == <<"ERROR", "INFO", "DEBUG", "TRACE">>
        copies == <<colours[defaults.PrimaryColour], colours[defaults.SecondaryColour]>>
                    \o [i \in 1..4 |-> colours[defaults.SeverityColours[severities[i]]]]
    IN  /\ colours' = colours \o [i \in 1..6 |-> ApplyMode(mode, copies[i])]
        /\ sinks' = Append(sinks,
                [kind |-> "text", mode |-> mode,
                 o |-> [SeverityColours |->
                            [x \in {"ERROR", "INFO", "DEBUG", "TRACE"} |->
                                n + 2 + (CHOOSE i \in 1..4 : severities[i] = x)],
                        PrimaryColour |-> n + 1,
                        SecondaryColour |-> n + 2,
                        DefaultSeverity |-> defaults.Severity,
                        ErrorSeverity |-> defaults.ErrorSeverity,
                        Thresholds |-> CapturedThresholds(defaults.SeverityThresholds),
                        NameSeparator |-> defaults.NameSeparator,
                        TimestampFormat |-> defaults.TimestampFormat,
                        ErrorKey |-> defaults.ErrorKey,
                        EntrySuffix |-> defaults.EntrySuffix,
                        SpaceSeparator |-> defaults.SpaceSeparator]])
        /\ UNCHANGED <<defaults, thresholdArrs>>

\* NewDevelopmentLogSink(opts) with the options value another sink s was
\* constructed from, its ColouredOutput set to mode: the options are passed by
\* value, so the new sink holds the same colour objects, and the mode is
\* applied to them.
NewDevelopmentLogSinkFrom(s, mode) ==
    LET o == sinks[s].o
        allColours == {o.PrimaryColour, o.SecondaryColour}
                        \cup {o.SeverityColours[x] : x \in DOMAIN o.SeverityColours}
    IN  /\ sinks[s].kind = "text"
        /\ colours' = [c \in DOMAIN colours |->
                IF c \in allColours THEN ApplyMode(mode, colours[c]) ELSE colours[c]]
        /\ sinks' = Append(sinks, [sinks[s] EXCEPT !.mode = mode])
        /\ UNCHANGED <<defaults, thresholdArrs>>

\* A string default assigned, e.g. DefaultSeverityKey = "level"
SetDefault(field, value) ==
    /\ defaults[field] # value
    /\ defaults' = [defaults EXCEPT ![field] = value]
    /\ UNCHANGED <<thresholdArrs, colours, sinks>>

\* DefaultSeverityThresholds = []SeverityThreshold{...}
AssignSeverityThresholds(list) ==
    /\ thresholdArrs' = Append(thresholdArrs, list)
    /\ defaults' = [defaults EXCEPT
            !.SeverityThresholds = [arr |-> Len(thresholdArrs) + 1, len |-> Len(list)]]
    /\ UNCHANGED <<colours, sinks>>

\* DefaultSeverityThresholds[i] = threshold
SetSeverityThreshold(i, threshold) ==
    /\ i \in 1..defaults.SeverityThresholds.len
    /\ thresholdArrs[defaults.SeverityThresholds.arr][i] # threshold
    /\ thresholdArrs' = [thresholdArrs EXCEPT
            ![defaults.SeverityThresholds.arr][i] = threshold]
    /\ UNCHANGED <<defaults, colours, sinks>>

\* The default colour objects.
DefaultColours ==
    {defaults.PrimaryColour, defaults.SecondaryColour}
        \cup {defaults.SeverityColours[x] : x \in DOMAIN defaults.SeverityColours}

\* DefaultPrimaryColour.EnableColor() or .DisableColor(), and so on for the
\* other default colours
SetDefaultColour(c, noColor) ==
    /\ c \in DefaultColours
    /\ colours[c].noColor # noColor
    /\ colours' = [colours EXCEPT ![c].noColor = noColor]
    /\ UNCHANGED <<defaults, thresholdArrs, sinks>>

\* The options of sink s with the colour objects and thresholds they refer to.
OptionsNow(s) ==
    IF sinks[s].kind = "json"
    THEN [sinks[s].o EXCEPT !.Thresholds = ThresholdsOf(@)]
    ELSE [sinks[s].o EXCEPT
            !.Thresholds = ThresholdsOf(@),
            !.PrimaryColour = colours[@],
            !.SecondaryColour = colours[@],
            !.SeverityColours = [x \in DOMAIN @ |-> colours[@[x]]]]

\* What sink s hands to its Output for Entry e.
SinkOutput(s, e) ==
    IF sinks[s].kind = "json"
    THEN JSONLog(OptionsNow(s), e, NilError).writes
    ELSE TextLog(OptionsNow(s), e, defaults.NoColor, NilError).writes

-----------------------------------------------------------------------------
(* SpecPackage: sinks constructed with defaults, and the defaults changed  *)
(* before and after.                                                       *)

\* Sinks constructed.
MaxSinks == 2

\* Threshold arrays allocated.
MaxThresholdArrays == 2

DefaultChanges ==
    {<<"SeverityKey", "level">>, <<"SeverityKey", "severity">>,
     <<"SpaceSeparator", "\t">>, <<"SpaceSeparator", " ">>}

NewThresholdLists == {<<[Level |-> 1, Severity |-> "TRACE"]>>}
NewThresholds == {[Level |-> 0, Severity |-> "DEBUG"], [Level |-> 1, Severity |-> "DEBUG"]}
ChangedColours == {1}
ColourModes == {"auto", "off", "on"}

InitPackage ==
    /\ LoggerInit
    /\ sev = NoSeverity
    /\ sinkCall = NoSinkCall
    /\ NoWriter
    /\ \E noColor \in BOOLEAN : PackageInit(noColor)

NextPackage ==
    \/ Len(sinks) < MaxSinks /\ NewJSONLogSink /\ UNCHANGED exceptPackage
    \/ \E mode \in ColourModes :
            Len(sinks) < MaxSinks /\ NewDevelopmentLogSink(mode) /\ UNCHANGED exceptPackage
    \/ \E change \in DefaultChanges :
            SetDefault(change[1], change[2]) /\ UNCHANGED exceptPackage
    \/ \E list \in NewThresholdLists :
            /\ Len(thresholdArrs) < MaxThresholdArrays
            /\ AssignSeverityThresholds(list)
            /\ UNCHANGED exceptPackage
    \/ \E i \in 1..2, threshold \in NewThresholds :
            SetSeverityThreshold(i, threshold) /\ UNCHANGED exceptPackage
    \/ \E c \in ChangedColours, noColor \in {"true", "false"} :
            SetDefaultColour(c, noColor) /\ UNCHANGED exceptPackage

SpecPackage == InitPackage /\ [][NextPackage]_vars

-----------------------------------------------------------------------------
(* SpecColour: Text Sinks constructed with each colour mode, while the     *)
(* default colours are switched and the default severity is renamed.       *)

\* A default severity that DefaultSeverityColours has no colour for.
SeverityChanges == {<<"Severity", "NOTICE">>, <<"Severity", "INFO">>}

NextColour ==
    \/ \E mode \in ColourModes :
            Len(sinks) < MaxSinks /\ NewDevelopmentLogSink(mode) /\ UNCHANGED exceptPackage
    \/ \E s \in DOMAIN sinks, mode \in ColourModes :
            /\ Len(sinks) < MaxSinks
            /\ NewDevelopmentLogSinkFrom(s, mode)
            /\ UNCHANGED exceptPackage
    \/ \E change \in SeverityChanges :
            SetDefault(change[1], change[2]) /\ UNCHANGED exceptPackage
    \/ \E c \in ChangedColours, noColor \in {"true", "false"} :
            SetDefaultColour(c, noColor) /\ UNCHANGED exceptPackage

SpecColour == InitPackage /\ [][NextColour]_vars

-----------------------------------------------------------------------------
(* Claims about the Logger                                                 *)

\* The kvs along a Logger's derivation path, concatenated in order.
PathKVs(l) == Flatten(loggers[l].pathArgs)

EvenCall == ~ParityOdd(last.values, last.kvs)

\* C1: every Logger holds the names and kvs of its own derivation path, whatever
\* was derived from other Loggers since, and a dispatched Record carries those
\* names and those kvs followed by the call's kvs.
C1_DerivationsIndependent ==
    /\ \A l \in DOMAIN loggers :
            /\ Names(l) = loggers[l].pathNames
            /\ Values(l) = PathKVs(l)
    /\ (last.returned /\ EvenCall) =>
            /\ last.dispatched[1].Names = loggers[last.logger].pathNames
            /\ last.dispatched[1].KVs = PathKVs(last.logger) \o last.kvs

\* C2: a logging call dispatches exactly one Record, with an even number of kvs
\* elements: the degraded Record (names, timestamp, usage error, level 0, no
\* message, no kvs) when accrued plus call-site kvs are odd in number, and
\* otherwise the Record of the call (the Logger's held names and kvs, then the
\* call's kvs).
C2_ParityDispatch ==
    last.returned =>
        /\ Len(last.dispatched) = 1
        /\ Len(last.dispatched[1].KVs) % 2 = 0
        /\ IF (Len(last.values) + Len(last.kvs)) % 2 = 1
           THEN /\ ~last.dispatched[1].Error.nil
                /\ last.dispatched[1] =
                      [Level |-> 0, Names |-> last.names, Timestamp |-> last.now,
                       Message |-> "", KVs |-> <<>>,
                       Error |-> last.dispatched[1].Error]
           ELSE last.dispatched[1] =
                      [Level |-> last.level, Names |-> last.names,
                       Timestamp |-> last.now, Message |-> last.msg,
                       KVs |-> last.values \o last.kvs, Error |-> last.err]

\* A call whose accrued kvs are odd in number and whose own kvs are even.
C2_Witness ==
    /\ last.returned
    /\ Len(last.values) % 2 = 1
    /\ Len(last.kvs) = 2
    /\ last.dispatched[1].KVs = <<>>

\* The odd-length kv sequences among the WithValues calls on the path of the
\* last call's Logger and the call's own kvs.
OddSequences ==
    LET args == Append(loggers[last.logger].pathArgs, last.kvs)
    IN  Cardinality({i \in DOMAIN args : Len(args[i]) % 2 = 1})

Degraded(e) == ~e.Error.nil /\ e.Message = "" /\ e.KVs = <<>>

\* C3 as stated: an odd-length kv sequence anywhere on the path or in the call
\* yields a Record with an error and without the call's message and kvs.
C3_AnyOddSequenceDegrades ==
    (last.returned /\ OddSequences > 0) => Degraded(last.dispatched[1])

\* C3 as amended: the Record is the degraded one exactly when the number of
\* odd-length kv sequences on the path and in the call is odd; when it is even
\* (two odd-length sequences included) the Record carries the call's message
\* and kvs.
C3_OddTotalDegrades ==
    last.returned =>
        IF OddSequences % 2 = 1
        THEN Degraded(last.dispatched[1])
        ELSE /\ last.dispatched[1].Message = last.msg
             /\ last.dispatched[1].Error = last.err
             /\ Len(last.dispatched[1].KVs) = Len(PathKVs(last.logger)) + Len(last.kvs)
             /\ SubSeq(last.dispatched[1].KVs, Len(PathKVs(last.logger)) + 1,
                       Len(last.dispatched[1].KVs)) = last.kvs

\* An odd-length WithValues on the path, an even-length call: degraded.
C3_Witness ==
    /\ last.returned
    /\ \E i \in DOMAIN loggers[last.logger].pathArgs :
            Len(loggers[last.logger].pathArgs[i]) = 1
    /\ Len(last.kvs) = 2
    /\ OddSequences = 1
    /\ Degraded(last.dispatched[1])

\* C4: the error handler is invoked exactly once, with the Sink's error, when
\* Sink.Log fails (for the Record of the call and for the degraded one alike) and
\* not at all when it succeeds; the Record is handed to the Sink once, and the
\* call returns.
C4_SinkErrorsHandled ==
    last.logger # 0 =>
        /\ last.returned
        /\ Len(last.dispatched) = 1
        /\ last.handled = (IF last.sinkErr.nil THEN <<>> ELSE <<last.sinkErr>>)

\* The Sink fails on the degraded Record.
C4_Witness ==
    /\ last.returned
    /\ ~last.sinkErr.nil
    /\ last.dispatched[1].Error = UsageError
    /\ last.handled = <<last.sinkErr>>

-----------------------------------------------------------------------------
(* Claims about the severity encoder                                       *)

\* The thresholds of the last encoder that the level meets, by position.
MetThresholds == {i \in DOMAIN sev.thresholds : sev.thresholds[i].Level <= sev.level}

\* The encoder's policy: the error severity for a non-nil error, else the
\* severity of the first threshold in list order whose Level is <= the level,
\* else the default severity.
FirstMatchPolicy ==
    sev.kind # "none" =>
        sev.out = (IF ~sev.err.nil THEN sev.errSeverity
                   ELSE IF MetThresholds = {} THEN sev.defaultSeverity
                   ELSE sev.thresholds[CHOOSE i \in MetThresholds :
                                            \A j \in MetThresholds : i <= j].Severity)

\* With the default configuration: TRACE from level 2, DEBUG at 1, INFO at 0.
DefaultLevels ==
    (sev.kind = "Info" /\ sev.err.nil) =>
        sev.out = (IF sev.level >= 2 THEN "TRACE"
                   ELSE IF sev.level = 1 THEN "DEBUG"
                   ELSE "INFO")

\* C7 as stated: the policy, the default levels, and ERROR for every Record that
\* Error or the parity-violation path produces.
C7_SeverityPolicy ==
    /\ FirstMatchPolicy
    /\ DefaultLevels
    /\ (sev.kind = "Error" \/ (sev.kind = "Info" /\ sev.err = UsageError)) =>
            sev.out = "ERROR"

\* C7 as amended: ERROR for every Record that carries an error, which are those
\* of the parity-violation path and those of Error called with a non-nil error;
\* Error called with a nil error gives the severity of level 0.
C7_SeverityPolicyNonNil ==
    /\ FirstMatchPolicy
    /\ DefaultLevels
    /\ (sev.kind \in {"Info", "Error"} /\ ~sev.err.nil) => sev.out = "ERROR"
    /\ (sev.kind = "Error" /\ sev.err.nil) => sev.out = "INFO"

\* Unsorted thresholds of which the second is the higher one met.
C7_Witness ==
    /\ sev.kind = "encode"
    /\ sev.err.nil
    /\ Len(sev.thresholds) = 2
    /\ sev.thresholds[1].Level < sev.thresholds[2].Level
    /\ sev.thresholds[2].Level <= sev.level
    /\ sev.thresholds[1].Severity # sev.thresholds[2].Severity
    /\ sev.out = sev.thresholds[1].Severity

-----------------------------------------------------------------------------
(* Claims about the sinks                                                  *)

Done == sinkCall.state = "done"

\* The key-value pairs of the Entry of the sink call, in order.
InputPairs ==
    [i \in 1..(Len(sinkCall.e.KVs) \div 2) |->
        [key |-> sinkCall.e.KVs[2 * i - 1], value |-> sinkCall.e.KVs[2 * i]]]

HasNonStringKey == \E i \in DOMAIN InputPairs : InputPairs[i].key.type # "string"

StringKeysOnly == Done /\ ~HasNonStringKey

\* The keys the caller gave, and the value of the last pair with key k.
CallerKeys == {InputPairs[i].key.val : i \in DOMAIN InputPairs}

LastValue(k) ==
    InputPairs[CHOOSE i \in DOMAIN InputPairs :
                    /\ InputPairs[i].key.val = k
                    /\ \A j \in DOMAIN InputPairs :
                            InputPairs[j].key.val = k => j <= i].value

\* The suffix that ends a line of the sink.
LineEnd == IF sinkCall.sink = "text" THEN sinkCall.o.EntrySuffix ELSE "}\n"
LineStart == IF sinkCall.sink = "text" THEN "" ELSE "{"

\* C6: a Log call that fails on a key that is no string or on a value that does
\* not marshal hands nothing to the output; one that succeeds has handed it one
\* byte string, the whole line (every field put in the buffer, then the line's
\* end); bytes reach the output on a failing call only when the write itself
\* fails.
C6_NoPartialLines ==
    Done =>
        LET r == sinkCall.result
        IN  /\ HasNonStringKey => (~r.err.nil /\ r.writes = <<>>)
            /\ (~r.err.nil /\ sinkCall.writeErr.nil) => r.writes = <<>>
            /\ (sinkCall.sink = "text" /\ \E i \in DOMAIN InputPairs :
                                                ~Marshals(InputPairs[i].value))
                    => (~r.err.nil /\ r.writes = <<>>)
            /\ r.err.nil =>
                    /\ Len(r.writes) = 1
                    /\ r.writes[1] = LineStart \o ConcatText(r.fields) \o LineEnd
                    /\ \A k \in CallerKeys : \E i \in DOMAIN r.fields : r.fields[i].key = k
            /\ (~r.err.nil /\ r.writes # <<>>) => ~sinkCall.writeErr.nil

\* The Text Sink fails on the second pair, after the first went to the buffer.
C6_Witness ==
    /\ Done
    /\ sinkCall.sink = "text"
    /\ Len(InputPairs) = 2
    /\ InputPairs[1].key.type = "string" /\ Marshals(InputPairs[1].value)
    /\ ~Marshals(InputPairs[2].value)
    /\ ~sinkCall.result.err.nil
    /\ sinkCall.result.writes = <<>>

\* The key-value pairs of the output, in the order they are written: those of
\* the key and value fields of a text line, and the members of a JSON object
\* under the caller's keys.
OutputPairs ==
    LET f == sinkCall.result.fields
    IN  IF sinkCall.sink = "text"
        THEN LET at == SelectSeq([i \in DOMAIN f |-> i], LAMBDA i : f[i].field = "key")
             IN  [n \in DOMAIN at |-> [key |-> f[at[n]].key, text |-> f[at[n] + 1].text]]
        ELSE LET at == SelectSeq([i \in DOMAIN f |-> i],
                                 LAMBDA i : f[i].key \in CallerKeys)
             IN  [n \in DOMAIN at |->
                    [key |-> f[at[n]].key, text |-> JSONText(f[at[n]].value)]]

\* A value as the sink writes it: its JSON, in the primary colour in a text line.
ValueText(v) ==
    IF sinkCall.sink = "text"
    THEN Paint(sinkCall.o.PrimaryColour, JSONText(MarshalValue(v)), sinkCall.nc)
    ELSE JSONText(MarshalValue(v))

Succeeded == StringKeysOnly /\ sinkCall.result.err.nil

\* C8 as stated: the output of a successful call holds the pairs of the Entry,
\* each once, with its value, in the Entry's order, in both sinks.
C8_EveryPairInOrder ==
    Succeeded =>
        OutputPairs = [i \in DOMAIN InputPairs |->
                            [key |-> InputPairs[i].key.val,
                             text |-> ValueText(InputPairs[i].value)]]

Rank(k) == CHOOSE i \in DOMAIN KeyOrder : KeyOrder[i] = k

\* C8 as amended: the Text Sink writes every pair once, with its value, in the
\* Entry's order (a repeated key is written once per pair); the JSON Sink writes
\* every distinct key once, with the value of the key's last pair, in the sorted
\* order of the keys.
C8_PairsTextInOrderJSONByKey ==
    Succeeded =>
        IF sinkCall.sink = "text"
        THEN OutputPairs = [i \in DOMAIN InputPairs |->
                                [key |-> InputPairs[i].key.val,
                                 text |-> ValueText(InputPairs[i].value)]]
        ELSE /\ Len(OutputPairs) = Cardinality(CallerKeys)
             /\ \A k \in CallerKeys : \E i \in DOMAIN OutputPairs :
                    OutputPairs[i] = [key |-> k, text |-> ValueText(LastValue(k))]
             /\ \A i, j \in DOMAIN OutputPairs :
                    i < j => Rank(OutputPairs[i].key) < Rank(OutputPairs[j].key)

\* The JSON Sink succeeds on two pairs with one key and two values.
C8_Witness ==
    /\ Succeeded
    /\ sinkCall.sink = "json"
    /\ Len(InputPairs) = 2
    /\ InputPairs[1].key = InputPairs[2].key
    /\ InputPairs[1].value # InputPairs[2].value
    /\ Len(OutputPairs) = 1

\* The fixed keys the options configure (an empty key name configures none).
ConfiguredKeys ==
    {sinkCall.o.TimestampKey, sinkCall.o.SeverityKey, sinkCall.o.NameKey,
     sinkCall.o.MessageKey, sinkCall.o.ErrorKey, sinkCall.o.StackTraceKey} \ {""}

\* The fixed fields the Entry has, each with its key and its value.
EntryFields ==
    LET o == sinkCall.o
        e == sinkCall.e
    IN  {[key |-> o.TimestampKey, value |-> TimestampEncoder(o.TimestampFormat, e.Timestamp)],
         [key |-> o.SeverityKey,
          value |-> SeverityEncoder(o.DefaultSeverity, o.ErrorSeverity, o.Thresholds,
                                    e.Level, e.Error)]}
        \cup (IF e.Names # <<>>
              THEN {[key |-> o.NameKey, value |-> NameEncoder(o.NameSeparator, e.Names)]}
              ELSE {})
        \cup (IF e.Message # "" THEN {[key |-> o.MessageKey, value |-> e.Message]} ELSE {})
        \cup (IF ~e.Error.nil /\ e.Error.msg # ""
              THEN {[key |-> o.ErrorKey, value |-> e.Error.msg]} ELSE {})
        \cup (IF ~e.Error.nil /\ e.Error.trace # ""
              THEN {[key |-> o.StackTraceKey, value |-> e.Error.trace]} ELSE {})

PresentKeys == {f.key : f \in EntryFields} \ {""}

Parsed == ParseObject(sinkCall.result.fields)

CallerWins ==
    /\ \A k \in CallerKeys :
            Parsed[k] = Unmarshal(MarshalValue(LastValue(k)))
    /\ \A f \in EntryFields :
            (f.key # "" /\ f.key \notin CallerKeys) => Parsed[f.key] = Str(f.value)

\* C9 as stated: the parsed output of a successful JSON Log call maps exactly
\* the configured fixed keys and the caller's keys, the caller's value under a
\* key that is both.
C9_RoundTripAllConfiguredKeys ==
    (Succeeded /\ sinkCall.sink = "json") =>
        /\ DOMAIN Parsed = ConfiguredKeys \cup CallerKeys
        /\ CallerWins

\* C9 as amended: the parsed output maps exactly the caller's keys and those
\* configured fixed keys whose field the Entry has (timestamp and severity
\* always, name with at least one name, message when not empty, error with an
\* error of non-empty message, stack trace when the error exposes one).
C9_RoundTripPresentKeys ==
    (Succeeded /\ sinkCall.sink = "json") =>
        /\ DOMAIN Parsed = PresentKeys \cup CallerKeys
        /\ CallerWins

\* The caller's key msg replaces the message of the Entry.
C9_Witness ==
    /\ Succeeded
    /\ sinkCall.sink = "json"
    /\ sinkCall.e.Message = "m"
    /\ "msg" \in CallerKeys
    /\ sinkCall.o.MessageKey = "msg"
    /\ Parsed["msg"] = Str("hi")

-----------------------------------------------------------------------------
(* Claims about the SynchronizedWriter                                     *)

InsideWrite == {t \in Threads : threads[t].pc \in {"write", "unlock"}}

AllDone == \A t \in Threads : threads[t].pc = "idle" /\ threads[t].calls = MCalls

\* Every head in dest is followed by the tail of its line, unless it is the
\* last part written and its Write is still going on or has failed; every tail
\* follows the head of its line.
NoTornLines ==
    \A i \in DOMAIN dest :
        /\ dest[i].part = "head" =>
              IF i < Len(dest)
              THEN \/ dest[i + 1] = [dest[i] EXCEPT !.part = "tail"]
                   \/ [thread |-> dest[i].thread, call |-> dest[i].call] \in failed
              ELSE \/ /\ threads[dest[i].thread].pc = "write"
                      /\ threads[dest[i].thread].calls + 1 = dest[i].call
                   \/ [thread |-> dest[i].thread, call |-> dest[i].call] \in failed
        /\ dest[i].part = "tail" => (i > 1 /\ dest[i - 1] = [dest[i] EXCEPT !.part = "head"])

\* One Write per Log call, carrying the whole line.
OneWritePerLog ==
    \A t \in Threads :
        /\ threads[t].pc \in {"write", "unlock"} =>
                /\ threads[t].writeCalls = 1
                /\ Head(threads[t].payloads) = Line(t, threads[t].calls + 1)
        /\ threads[t].pc = "lock" => threads[t].writeCalls = 0

\* The lock is held by a thread inside Write and by no other.
LockFollowsWrite == InsideWrite = (IF lock = 0 THEN {} ELSE {lock})

\* When every call has returned, dest holds one complete line per call whose
\* Write did not fail: all N x M of them when none failed.
AllLinesWritten ==
    AllDone =>
        /\ \A t \in Threads, i \in 1..MCalls :
                [thread |-> t, call |-> i] \notin failed =>
                    Cardinality({n \in DOMAIN dest : dest[n] = Line(t, i)[1]}) = 1
        /\ failed = {} => Len(dest) = 2 * Cardinality(Threads) * MCalls

WriterSafety ==
    /\ Cardinality(InsideWrite) <= 1
    /\ NoTornLines
    /\ OneWritePerLog
    /\ LockFollowsWrite
    /\ AllLinesWritten

\* C5: at most one thread is inside the underlying Write, lines are never
\* interleaved, each Log makes one Write of its whole line, the lock is held
\* only during a Write (so it is released after each, failed or not), all N x M
\* lines are there at the end, and every thread waiting for the lock gets it.
C5_SynchronizedLines ==
    /\ []WriterSafety
    /\ \A t \in Threads : (threads[t].pc = "lock") ~> (threads[t].pc = "write")

\* All calls done without a failure, the lines of two threads alternating.
C5_Witness ==
    /\ AllDone
    /\ failed = {}
    /\ Len(dest) = 2 * Cardinality(Threads) * MCalls
    /\ dest[1].thread # dest[3].thread
    /\ dest[3].thread # dest[5].thread

-----------------------------------------------------------------------------
(* Claims about the text line                                              *)

RECURSIVE JoinTexts(_)
JoinTexts(texts) ==
    IF texts = <<>> THEN "" ELSE Head(texts) \o JoinTexts(Tail(texts))

\* The line of the Text Sink for the Entry of the sink call, field by field:
\* timestamp, severity, names if any, message, error if any, the pairs, the
\* stack trace if any after traceSeparator, and the entry suffix.
TextLine(traceSeparator) ==
    LET o == sinkCall.o
        e == sinkCall.e
        sep == o.SpaceSeparator
        severity == IF ~e.Error.nil THEN o.ErrorSeverity
                    ELSE IF \E i \in DOMAIN o.Thresholds : e.Level >= o.Thresholds[i].Level
                    THEN o.Thresholds[CHOOSE i \in DOMAIN o.Thresholds :
                            /\ e.Level >= o.Thresholds[i].Level
                            /\ \A j \in 1..(i - 1) : e.Level < o.Thresholds[j].Level].Severity
                    ELSE o.DefaultSeverity
        severityColour == IF severity \in DOMAIN o.SeverityColours
                          THEN o.SeverityColours[severity] ELSE o.PrimaryColour
        In(c, text) == Paint(c, text, sinkCall.nc)
    IN  In(o.SecondaryColour, TimestampEncoder(o.TimestampFormat, e.Timestamp))
        \o In(severityColour, sep \o severity)
        \o (IF e.Names # <<>>
            THEN In(o.PrimaryColour, sep \o NameEncoder(o.NameSeparator, e.Names))
            ELSE "")
        \o In(o.PrimaryColour, sep \o e.Message)
        \o (IF ~e.Error.nil
            THEN In(severityColour, sep \o o.ErrorKey \o "=\"" \o e.Error.msg \o "\"")
            ELSE "")
        \o JoinTexts([i \in DOMAIN InputPairs |->
                In(o.SecondaryColour, sep \o InputPairs[i].key.val \o "=")
                    \o ValueText(InputPairs[i].value)])
        \o (IF ~e.Error.nil /\ e.Error.trace # ""
            THEN In(o.PrimaryColour, traceSeparator \o e.Error.trace)
            ELSE "")
        \o o.EntrySuffix

TextSucceeded == Succeeded /\ sinkCall.sink = "text"

\* C11: a successful Log call of the Text Sink writes one line: timestamp,
\* severity, joined names (iff there is a name), message, error="message" (iff
\* there is an error), key=json-value for every pair, the stack trace (iff the
\* error has one), and then the entry suffix.
\* C11 as stated, the stack trace after the field separator like every field
\* but the first.
C11_SeparatedFieldsInOrder ==
    TextSucceeded => sinkCall.result.writes = <<TextLine(sinkCall.o.SpaceSeparator)>>

\* C11 as amended: the same line, but the stack trace follows the field before
\* it directly, with no field separator.
C11_FieldsInOrderTraceUnseparated ==
    TextSucceeded => sinkCall.result.writes = <<TextLine("")>>

\* The Text Sink has written a line with every field: names, an error with a
\* stack trace, and two pairs.
C11_Witness ==
    /\ TextSucceeded
    /\ sinkCall.e.Names # <<>>
    /\ sinkCall.e.Error.trace # ""
    /\ Len(InputPairs) = 2
    /\ sinkCall.result.writes = <<TextLine("")>>

-----------------------------------------------------------------------------
(* Claims about the defaults                                               *)

TestEntries ==
    {FullEntry(<<>>, <<>>, 1, 0, NilError, "m", <<>>),
     FullEntry(<<"a">>, <<>>, 1, 1, NilError, "m", <<Str("k"), Str("v")>>),
     FullEntry(<<>>, <<>>, 1, 0, Err("boom", ""), "m", <<>>)}

\* C10: no step taken after a sink is constructed (a default changed, a default
\* threshold or colour changed in place, another sink constructed) changes what
\* the sink writes for an Entry.
C10_OutputFrozen ==
    [][\A s \in DOMAIN sinks : \A e \in TestEntries :
            SinkOutput(s, e)' = SinkOutput(s, e)]_vars

-----------------------------------------------------------------------------
(* Claims about the colour modes                                           *)

\* The line of Entry e under options o, every field written through In: the
\* timestamp and the keys in the secondary colour, the severity and the error
\* in the colour of the severity (the primary colour when it has none), the
\* rest in the primary colour.
RenderedLine(o, e, In(_, _)) ==
    LET sep == o.SpaceSeparator
        severity == SeverityEncoder(o.DefaultSeverity, o.ErrorSeverity,
                                    o.Thresholds, e.Level, e.Error)
        severityColour == IF severity \in DOMAIN o.SeverityColours
                          THEN o.SeverityColours[severity] ELSE o.PrimaryColour
    IN  In(o.SecondaryColour, TimestampEncoder(o.TimestampFormat, e.Timestamp))
        \o In(severityColour, sep \o severity)
        \o (IF e.Names # <<>>
            THEN In(o.PrimaryColour, sep \o NameEncoder(o.NameSeparator, e.Names))
            ELSE "")
        \o In(o.PrimaryColour, sep \o e.Message)
        \o (IF ~e.Error.nil
            THEN In(severityColour, sep \o o.ErrorKey \o "=\"" \o e.Error.msg \o "\"")
            ELSE "")
        \o JoinTexts([i \in 1..(Len(e.KVs) \div 2) |->
                In(o.SecondaryColour, sep \o e.KVs[2 * i - 1].val \o "=")
                    \o In(o.PrimaryColour, JSONText(MarshalValue(e.KVs[2 * i])))])
        \o (IF ~e.Error.nil /\ e.Error.trace # ""
            THEN In(o.PrimaryColour, e.Error.trace)
            ELSE "")
        \o o.EntrySuffix

\* A text as it is, and a text between the escape sequences of colour c.
Bare(c, text) == text
Escaped(c, text) == "\\e[" \o c.attr \o "m" \o text \o "\\e[0m"

ColourEntries ==
    TestEntries \cup {FullEntry(<<>>, <<>>, 1, 2, Err("boom", "stack"), "m", <<>>),
                      FullEntry(<<>>, <<>>, 1, 2, NilError, "m", <<>>)}

\* C12: whatever color.NoColor is, whatever sinks were constructed since, with
\* default options or with those of another sink, and however the default
\* colours were switched, a Text Sink constructed with force-off writes every
\* line without any escape sequence, and one constructed with force-on writes
\* every field of every line between the escape sequences of its colour, the
\* severity's own or the primary one when it has none.
C12_ForcedModeHolds ==
    \A s \in DOMAIN sinks : \A e \in ColourEntries :
        /\ sinks[s].mode = "off" =>
                SinkOutput(s, e) = <<RenderedLine(OptionsNow(s), e, Bare)>>
        /\ sinks[s].mode = "on" =>
                SinkOutput(s, e) = <<RenderedLine(OptionsNow(s), e, Escaped)>>

====
